---------------------------- MODULE Spec2Model ----------------------------
(***************************************************************************)
(* A model of examples/pytorch/text-generation/bench_generation.py: one    *)
(* run of main(), from the parsed command line to the two output files.    *)
(*                                                                         *)
(* Conventions                                                             *)
(*  - Option values that the program inspects character by character       *)
(*    (--model_type) are sequences of one-character strings.               *)
(*  - Texts (prompts) are sequences of words; the tokenizer turns each     *)
(*    word into one token id.                                              *)
(*  - Python's None is the string None below.                              *)
(*  - Decoded texts and --stop_token are sequences of one-character        *)
(*    strings; the optional --stop_token is a sequence of zero (None) or   *)
(*    one such strings.                                                    *)
(*  - A float is an exact fraction <<numerator, denominator>> in lowest    *)
(*    terms with a positive denominator; a latency is a whole number of    *)
(*    clock ticks.                                                         *)
(*  - Options the model leaves at their defaults: --prefix, --padding_text,*)
(*    --jit, --fp16, --device_map, --seed (42), --output_sequences,        *)
(*    --print_records, --max_new_tokens, --min_new_tokens and the sampling *)
(*    parameters.                                                          *)
(*  - With --output_sequences off the decoded texts of an iteration        *)
(*    (lines 555-570) reach no record; the run specifications leave them   *)
(*    untouched and SpecStop follows the decoding of one sequence.         *)
(***************************************************************************)
EXTENDS Integers, Sequences, FiniteSets, TLC

VARIABLES
    argv,              \* the command line as given (never changed)
    args,              \* the argparse namespace (mutated in place by main)
    pc,                \* position of main()
    err,               \* the exception that ended the run, or NoError
    distributed_state, \* TRUE once PartialState(...) has been constructed
    rng,               \* global random state: [seeded, draws since last seed]
    seed_calls,        \* number of set_seed calls so far
    tokenizer,         \* TRUE once tokenizer_class.from_pretrained returned
    model,             \* [loaded, max_position_embeddings, use_lang_emb, lang_id]
    prompt_text,       \* line 485
    i,                 \* loop index of the benchmark loop
    encoded_prompt,    \* token ids of the current iteration's prompt
    records,           \* the records list
    metrics,           \* the metrics mapping (empty until computed)
    files,             \* output files written so far, in order
    console_reads,     \* every input() call so far, in order
    gen_calls,         \* arguments of every model.generate call so far
    runtime,           \* line 575: the last measured latency (-1: none yet)
    decoded,           \* line 560: what tokenizer.decode returned
    text               \* lines 560-563: the local variable text

vars == <<argv, args, pc, err, distributed_state, rng, seed_calls, tokenizer, model,
          prompt_text, i, encoded_prompt, records, metrics, files,
          console_reads, gen_calls, runtime, decoded, text>>

-----------------------------------------------------------------------------
(* Bounds of the model *)

MaxWarmup == 2
MaxRuns == 2
MaxIterations == 3
MaxLatency == 2
MaxNewTokens == 1
MaxReads == 1
MaxLen == 50
MaxTextLen == 3

(* Program constants *)

MAX_LENGTH == 10000

None == "None"
NoError == "none"

-----------------------------------------------------------------------------
(* Strings as character sequences; str.lower() *)

LowerChar(c) ==
    CASE c = "A" -> "a" [] c = "B" -> "b" [] c = "C" -> "c" [] c = "D" -> "d"
      [] c = "E" -> "e" [] c = "F" -> "f" [] c = "G" -> "g" [] c = "H" -> "h"
      [] c = "I" -> "i" [] c = "J" -> "j" [] c = "K" -> "k" [] c = "L" -> "l"
      [] c = "M" -> "m" [] c = "N" -> "n" [] c = "O" -> "o" [] c = "P" -> "p"
      [] c = "Q" -> "q" [] c = "R" -> "r" [] c = "S" -> "s" [] c = "T" -> "t"
      [] c = "U" -> "u" [] c = "V" -> "v" [] c = "W" -> "w" [] c = "X" -> "x"
      [] c = "Y" -> "y" [] c = "Z" -> "z" [] OTHER -> c

Lower_NoOp(s) == s

Lower(s) == [k \in 1..Len(s) |-> LowerChar(s[k])]

MODEL_CLASSES ==
    { <<"g","p","t","2">>,
      <<"c","t","r","l">>,
      <<"o","p","e","n","a","i","-","g","p","t">>,
      <<"x","l","n","e","t">>,
      <<"t","r","a","n","s","f","o","-","x","l">>,
      <<"x","l","m">>,
      <<"g","p","t","j">>,
      <<"b","l","o","o","m">>,
      <<"l","l","a","m","a">>,
      <<"o","p","t">> }

PREPROCESSING_FUNCTIONS ==
    { <<"c","t","r","l">>, <<"x","l","m">>, <<"x","l","n","e","t">>,
      <<"t","r","a","n","s","f","o","-","x","l">> }

XLM == <<"x","l","m">>

-----------------------------------------------------------------------------
(* Exact fractions standing for Python floats *)

RECURSIVE Gcd(_, _)
Gcd(a, b) == IF b = 0 THEN a ELSE Gcd(b, a % b)

Frac(n, d) == LET g == Gcd(n, d) IN <<n \div g, d \div g>>

FracLeq(x, y) == x[1] * y[2] <= y[1] * x[2]

FracMean(x, y) == Frac(x[1] * y[2] + y[1] * x[2], 2 * x[2] * y[2])


-----------------------------------------------------------------------------
(* Pure helpers of main() *)

\* Python truthiness of an optional string option
Truthy(s) == s /= None /\ s /= ""

UseCacheFlag_AnyCase(s) == ~(s \in {"False", "false"})

\* lines 407-411
UseCacheFlag(s) == IF s = "False" THEN FALSE ELSE TRUE

adjust_length_NoFallback(length, max_sequence_length) ==
    IF length < 0 /\ max_sequence_length > 0 THEN max_sequence_length
    ELSE IF 0 < max_sequence_length /\ max_sequence_length < length
         THEN max_sequence_length
    ELSE length

\* lines 178-185
adjust_length_to_model(length, max_sequence_length) ==
    IF length < 0 /\ max_sequence_length > 0 THEN max_sequence_length
    ELSE IF 0 < max_sequence_length /\ max_sequence_length < length
         THEN max_sequence_length
    ELSE IF length < 0 THEN MAX_LENGTH
    ELSE length

\* tokenizer.encode: one token id per word
Vocab == ("Who" :> 101) @@ ("chess" :> 102)

Encode(prompt) == [k \in 1..Len(prompt) |-> Vocab[prompt[k]]]

WarmupFlag_Inclusive(idx, n_warmup_runs) == idx <= n_warmup_runs

\* line 584
WarmupFlag(idx, n_warmup_runs) == idx < n_warmup_runs

RECURSIVE SumSeq(_)
SumSeq(s) == IF s = <<>> THEN 0 ELSE Head(s) + SumSeq(Tail(s))

TokensPerSecond_Inverse(total_tokens, latency) == Frac(latency, total_tokens)

\* line 593, for latency /= 0
TokensPerSecond(total_tokens, latency) == Frac(total_tokens, latency)

\* sorted(data) on fractions
RECURSIVE Insert(_, _)
Insert(x, s) ==
    IF s = <<>> THEN <<x>>
    ELSE IF FracLeq(x, Head(s)) THEN <<x>> \o s
    ELSE <<Head(s)>> \o Insert(x, Tail(s))

RECURSIVE Sorted(_)
Sorted(s) == IF s = <<>> THEN <<>> ELSE Insert(Head(s), Sorted(Tail(s)))

median_HighMiddle(data) ==
    LET d == Sorted(data)
        n == Len(d)
    IN d[(n \div 2) + 1]

\* statistics.median(data) for non-empty data
median(data) ==
    LET d == Sorted(data)
        n == Len(d)
    IN IF n % 2 = 1 THEN d[(n \div 2) + 1]
       ELSE FracMean(d[n \div 2], d[(n \div 2) + 1])

\* [rec['tokens_per_second'] for rec in records if rec["warmup"]==flag]
GroupTps(recs, flag) ==
    LET sel == SelectSeq(recs, LAMBDA r : r.warmup = flag)
    IN [k \in 1..Len(sel) |-> sel[k].tokens_per_second]

-----------------------------------------------------------------------------
(* Inputs and environment *)

GPT2 == <<"g","p","t","2">>

ModelTypeInputs ==
    { GPT2, <<"G","P","T","2">>, XLM, <<"X","l","m">>,
      <<"b","e","r","t">>, <<"G","P","T","3">> }

UseCacheInputs == {"True", "False", "false", "0", ""}

\* the files present in prompts/ (without the .txt suffix)
PromptFiles == {"chess"}

PresetInputs == {None, "", "chess", "missing"}

PromptInputs == {<<>>, <<"Who">>}

FileContents == {<<>>, <<"chess">>}

LengthInputs == {-1, 3}

MaxPosEmbInputs == {0, 2}

\* model.config.lang2id of an XLM checkpoint with language embeddings
lang2id == ("en" :> 0) @@ ("fr" :> 1)

XlmLanguageInputs == {"", "en"}

ConsoleLanguageLines == {"en", "de"}

Defaults ==
    [ model_type |-> GPT2, use_cache |-> "True", preset_prompt |-> None,
      prompt |-> <<"Who">>, length |-> 3, n_warmup_runs |-> 1, n_runs |-> 1,
      xlm_language |-> "", num_return_sequences |-> 1, same_seed |-> FALSE,
      stop_token |-> <<>> ]

\* command lines that exercise the benchmark loop: at most MaxIterations
\* iterations in all; --xlm_language is given only with an XLM model and
\* several return sequences are asked only of GPT-2
LoopArgs ==
    { a \in { [Defaults EXCEPT !.model_type = m, !.prompt = p,
                               !.n_warmup_runs = w, !.n_runs = r,
                               !.xlm_language = l,
                               !.num_return_sequences = b] :
                m \in {GPT2, XLM, <<"b","e","r","t">>}, p \in PromptInputs,
                w \in 0..MaxWarmup, r \in 0..MaxRuns,
                l \in XlmLanguageInputs, b \in 1..2 } :
        /\ a.n_warmup_runs + a.n_runs <= MaxIterations
        /\ a.xlm_language /= "" => a.model_type = XLM
        /\ a.num_return_sequences > 1 => a.model_type = GPT2 }

\* command lines that exercise argument handling
FrontArgs ==
    { [Defaults EXCEPT !.model_type = m, !.use_cache = c, !.preset_prompt = f,
                       !.prompt = p, !.length = n, !.same_seed = s] :
        m \in ModelTypeInputs, c \in UseCacheInputs, f \in PresetInputs,
        p \in PromptInputs, n \in LengthInputs, s \in BOOLEAN }

InitWith(A) ==
    /\ argv \in A
    /\ args = argv
    /\ pc = "parse"
    /\ err = NoError
    /\ distributed_state = FALSE
    /\ rng = [seeded |-> FALSE, draws |-> 0]
    /\ seed_calls = 0
    /\ tokenizer = FALSE
    /\ model = [loaded |-> FALSE, max_position_embeddings |-> 0,
                use_lang_emb |-> FALSE, lang_id |-> 0]
    /\ prompt_text = <<>>
    /\ i = 0
    /\ encoded_prompt = <<>>
    /\ records = <<>>
    /\ metrics = <<>>
    /\ files = <<>>
    /\ console_reads = <<>>
    /\ gen_calls = <<>>
    /\ runtime = -1
    /\ decoded = <<>>
    /\ text = <<>>

Init == InitWith(LoopArgs)

InitFront == InitWith(FrontArgs)

Fail(e) == pc' = "failed" /\ err' = e

-----------------------------------------------------------------------------
(* main(), lines 399-487: argument handling and model loading *)

\* lines 399-415
SetUseCache ==
    /\ pc = "parse"
    /\ args' = [args EXCEPT !.use_cache = UseCacheFlag(args.use_cache)]
    /\ pc' = "preset"
    /\ UNCHANGED <<decoded, text>>
    /\ UNCHANGED <<argv, err, distributed_state, rng, seed_calls, tokenizer, model,
                   prompt_text, i, encoded_prompt, records, metrics, files,
                   console_reads, gen_calls, runtime>>

\* line 418: if args.preset_prompt:
PresetGiven(preset_prompt) == Truthy(preset_prompt)

Preset_WarnOnly ==
    /\ pc = "preset"
    /\ IF PresetGiven(args.preset_prompt) /\ args.preset_prompt \in PromptFiles
       THEN \E content \in FileContents :
               args' = [args EXCEPT !.prompt = content]
       ELSE UNCHANGED args
    /\ pc' = "device"
    /\ UNCHANGED <<decoded, text>>
    /\ UNCHANGED <<argv, err, distributed_state, rng, seed_calls, tokenizer,
                   model, prompt_text, i, encoded_prompt, records, metrics,
                   files, console_reads, gen_calls, runtime>>

\* lines 417-424
Preset ==
    /\ pc = "preset"
    /\ IF PresetGiven(args.preset_prompt)
       THEN IF args.preset_prompt \notin PromptFiles
            THEN Fail("ValueError") /\ UNCHANGED args
            ELSE /\ \E content \in FileContents :
                        args' = [args EXCEPT !.prompt = content]
                 /\ pc' = "device"
                 /\ UNCHANGED err
       ELSE pc' = "device" /\ UNCHANGED <<args, err>>
    /\ UNCHANGED <<decoded, text>>
    /\ UNCHANGED <<argv, distributed_state, rng, seed_calls, tokenizer, model,
                   prompt_text, i, encoded_prompt, records, metrics, files,
                   console_reads, gen_calls, runtime>>

\* accelerate.utils.set_seed
SetSeed == rng' = [seeded |-> TRUE, draws |-> 0] /\ seed_calls' = seed_calls + 1

\* lines 427-439
InitDevice ==
    /\ pc = "device"
    /\ distributed_state' = TRUE
    /\ SetSeed
    /\ pc' = "lookup"
    /\ UNCHANGED <<decoded, text>>
    /\ UNCHANGED <<argv, args, err, tokenizer, model, prompt_text, i, encoded_prompt,
                   records, metrics, files, console_reads, gen_calls, runtime>>

\* lines 441-446
Lookup ==
    /\ pc = "lookup"
    /\ args' = [args EXCEPT !.model_type = Lower(args.model_type)]
    /\ IF Lower(args.model_type) \in MODEL_CLASSES
       THEN pc' = "load" /\ UNCHANGED err
       ELSE Fail("KeyError")
    /\ UNCHANGED <<decoded, text>>
    /\ UNCHANGED <<argv, distributed_state, rng, seed_calls, tokenizer, model,
                   prompt_text, i, encoded_prompt, records, metrics, files,
                   console_reads, gen_calls, runtime>>

\* lines 448-462; from_pretrained may raise for the tokenizer or for the model
Load ==
    /\ pc = "load"
    /\ \/ Fail("LoadError") /\ UNCHANGED <<tokenizer, model>>
       \/ Fail("LoadError") /\ tokenizer' = TRUE /\ UNCHANGED model
       \/ /\ tokenizer' = TRUE
          /\ \E m \in MaxPosEmbInputs,
                e \in (IF args.model_type = XLM THEN BOOLEAN ELSE {FALSE}) :
                model' = [loaded |-> TRUE, max_position_embeddings |-> m,
                          use_lang_emb |-> e, lang_id |-> 0]
          /\ pc' = "adjust"
          /\ UNCHANGED err
    /\ UNCHANGED <<decoded, text>>
    /\ UNCHANGED <<argv, args, distributed_state, rng, seed_calls, prompt_text, i,
                   encoded_prompt, records, metrics, files, console_reads,
                   gen_calls, runtime>>

\* lines 464-466
AdjustLength ==
    /\ pc = "adjust"
    /\ args' = [args EXCEPT !.length =
                    adjust_length_to_model(args.length,
                                           model.max_position_embeddings)]
    /\ pc' = "prompt"
    /\ UNCHANGED <<decoded, text>>
    /\ UNCHANGED <<argv, err, distributed_state, rng, seed_calls, tokenizer, model,
                   prompt_text, i, encoded_prompt, records, metrics, files,
                   console_reads, gen_calls, runtime>>

\* lines 485-490
ReadPrompt ==
    /\ pc = "prompt"
    /\ IF args.prompt /= <<>>
       THEN prompt_text' = args.prompt /\ UNCHANGED console_reads
       ELSE \E line \in PromptInputs :
            /\ prompt_text' = line
            /\ console_reads' = Append(console_reads,
                   [question |-> "Model prompt", answer |-> line])
    /\ pc' = "loop"
    /\ i' = 0
    /\ records' = <<>>
    /\ UNCHANGED <<decoded, text>>
    /\ UNCHANGED <<argv, args, err, distributed_state, rng, seed_calls,
                   tokenizer, model, encoded_prompt, metrics, files, gen_calls,
                   runtime>>

-----------------------------------------------------------------------------
(* main(), lines 489-599: the benchmark loop *)

NIterations == args.n_warmup_runs + args.n_runs

\* line 487
requires_preprocessing == args.model_type \in PREPROCESSING_FUNCTIONS

\* lines 492-515: loop head, preprocessing (prepare_xlm_input up to its
\* console prompt; XLM is the only preprocessed family among the inputs) and
\* tokenization
Tokenize ==
    /\ pc = "loop"
    /\ i < NIterations
    /\ IF requires_preprocessing /\ args.model_type = XLM /\ model.use_lang_emb
       THEN IF args.xlm_language \in DOMAIN lang2id
            THEN /\ model' = [model EXCEPT !.lang_id = lang2id[args.xlm_language]]
                 /\ encoded_prompt' = Encode(prompt_text)
                 /\ pc' = "generate"
            ELSE /\ pc' = "xlm_input"
                 /\ UNCHANGED <<model, encoded_prompt>>
       ELSE /\ encoded_prompt' = Encode(prompt_text)
            /\ pc' = "generate"
            /\ UNCHANGED model
    /\ UNCHANGED <<decoded, text>>
    /\ UNCHANGED <<argv, args, err, distributed_state, rng, seed_calls, tokenizer,
                   prompt_text, i, records, metrics, files, console_reads,
                   gen_calls, runtime>>

\* lines 143-146 and, once a known language is typed, lines 155 and 503-515
XlmSelectLanguage ==
    /\ pc = "xlm_input"
    /\ \E line \in ConsoleLanguageLines :
          /\ console_reads' = Append(console_reads,
                 [question |-> "Using XLM. Select language", answer |-> line])
          /\ IF line \in DOMAIN lang2id
             THEN /\ model' = [model EXCEPT !.lang_id = lang2id[line]]
                  /\ encoded_prompt' = Encode(prompt_text)
                  /\ pc' = "generate"
             ELSE /\ Len(console_reads) < MaxReads
                  /\ UNCHANGED <<model, encoded_prompt, pc>>
    /\ UNCHANGED <<decoded, text>>
    /\ UNCHANGED <<argv, args, err, distributed_state, rng, seed_calls, tokenizer,
                   prompt_text, i, records, metrics, files, gen_calls, runtime>>

\* lines 582-593
Record(latency, idx, n_in, out_len, max_length) ==
    LET output_lengths == [k \in 1..args.num_return_sequences |-> out_len]
        total_tokens   == SumSeq(output_lengths)
    IN [ latency           |-> latency,
         warmup            |-> WarmupFlag(idx, args.n_warmup_runs),
         input_lengths     |-> <<n_in>>,
         output_lengths    |-> output_lengths,
         total_tokens      |-> total_tokens,
         batch_size        |-> Len(output_lengths),
         max_length        |-> max_length,
         tokens_per_second |-> TokensPerSecond(total_tokens, latency) ]

ResetSeed_Never(same_seed, state) == state

\* lines 525-526: the random state generate starts from
ResetSeed(same_seed, state) ==
    IF same_seed THEN [seeded |-> TRUE, draws |-> 0] ELSE state

\* lines 517-599: the rest of one iteration
Generate ==
    /\ pc = "generate"
    /\ LET n          == Len(encoded_prompt)
           no_input   == (n = 0)
           max_length == args.length + n
           rng_call   == ResetSeed(args.same_seed, rng)
       IN /\ seed_calls' = IF args.same_seed THEN seed_calls + 1 ELSE seed_calls
          /\ gen_calls' = Append(gen_calls,
                 [ use_cache  |-> args.use_cache,
                   no_input   |-> no_input,
                   input_ids  |-> encoded_prompt,
                   max_length |-> max_length,
                   rng        |-> rng_call ])
          /\ rng' = [rng_call EXCEPT !.draws = @ + 1]
          /\ \/ \* model.generate raises
                /\ Fail("GenerateError")
                /\ UNCHANGED <<i, records, runtime>>
             \/ \E new \in 0..MaxNewTokens, latency \in 0..MaxLatency :
                   /\ new <= args.length
                   /\ runtime' = latency
                   /\ IF no_input
                      THEN \* line 579: None has no attribute 'to'
                           Fail("AttributeError") /\ UNCHANGED <<i, records>>
                      ELSE IF latency = 0
                      THEN \* line 593
                           Fail("ZeroDivisionError") /\ UNCHANGED <<i, records>>
                      ELSE /\ records' = Append(records,
                                  Record(latency, i, n, n + new, max_length))
                           /\ i' = i + 1
                           /\ pc' = "loop"
                           /\ UNCHANGED err
    /\ UNCHANGED <<decoded, text>>
    /\ UNCHANGED <<argv, args, distributed_state, tokenizer, model, prompt_text,
                   encoded_prompt, metrics, files, console_reads>>

-----------------------------------------------------------------------------
(* main(), lines 601-633: aggregation and persistence *)

Median_EmptyAsZero ==
    /\ pc = "loop"
    /\ ~(i < NIterations)
    /\ LET warm == GroupTps(records, TRUE)
           meas == GroupTps(records, FALSE)
           Med(d) == IF d = <<>> THEN <<0, 1>> ELSE median(d)
       IN metrics' = [ median_warmup_tokens_per_second |-> Med(warm),
                       median_tokens_per_second        |-> Med(meas) ]
    /\ pc' = "write_records"
    /\ UNCHANGED <<decoded, text>>
    /\ UNCHANGED <<argv, args, err, distributed_state, rng, seed_calls,
                   tokenizer, model, prompt_text, i, encoded_prompt, records,
                   files, console_reads, gen_calls, runtime>>

\* lines 601-605; statistics.median raises StatisticsError on no data
Median ==
    /\ pc = "loop"
    /\ ~(i < NIterations)
    /\ LET warm == GroupTps(records, TRUE)
           meas == GroupTps(records, FALSE)
       IN IF warm = <<>> \/ meas = <<>>
          THEN Fail("StatisticsError") /\ UNCHANGED metrics
          ELSE /\ metrics' = [ median_warmup_tokens_per_second |-> median(warm),
                               median_tokens_per_second        |-> median(meas) ]
               /\ pc' = "write_records"
               /\ UNCHANGED err
    /\ UNCHANGED <<decoded, text>>
    /\ UNCHANGED <<argv, args, distributed_state, rng, seed_calls, tokenizer, model,
                   prompt_text, i, encoded_prompt, records, files,
                   console_reads, gen_calls, runtime>>

\* lines 624-627; open() may raise
WriteRecords ==
    /\ pc = "write_records"
    /\ \/ Fail("OSError") /\ UNCHANGED files
       \/ /\ files' = Append(files, "records_file")
          /\ pc' = "write_metrics"
          /\ UNCHANGED err
    /\ UNCHANGED <<decoded, text>>
    /\ UNCHANGED <<argv, args, distributed_state, rng, seed_calls, tokenizer, model,
                   prompt_text, i, encoded_prompt, records, metrics,
                   console_reads, gen_calls, runtime>>

WriteMetrics_Swallow ==
    /\ pc = "write_metrics"
    /\ \/ UNCHANGED files
       \/ files' = Append(files, "metrics_file")
    /\ pc' = "done"
    /\ UNCHANGED <<decoded, text>>
    /\ UNCHANGED <<argv, args, err, distributed_state, rng, seed_calls,
                   tokenizer, model, prompt_text, i, encoded_prompt, records,
                   metrics, console_reads, gen_calls, runtime>>

\* lines 629-633; open() may raise
WriteMetrics ==
    /\ pc = "write_metrics"
    /\ \/ Fail("OSError") /\ UNCHANGED files
       \/ /\ files' = Append(files, "metrics_file")
          /\ pc' = "done"
          /\ UNCHANGED err
    /\ UNCHANGED <<decoded, text>>
    /\ UNCHANGED <<argv, args, distributed_state, rng, seed_calls, tokenizer, model,
                   prompt_text, i, encoded_prompt, records, metrics,
                   console_reads, gen_calls, runtime>>

-----------------------------------------------------------------------------
(* Specifications *)

Next ==
    \/ SetUseCache
    \/ Preset
    \/ InitDevice
    \/ Lookup
    \/ Load
    \/ AdjustLength
    \/ ReadPrompt
    \/ Tokenize
    \/ XlmSelectLanguage
    \/ Generate
    \/ Median
    \/ WriteRecords
    \/ WriteMetrics

Spec == Init /\ [][Next]_vars

SpecFront == InitFront /\ [][Next]_vars

\* adjust_length_to_model on its own: main() stands at line 464 with a loaded
\* model, for every requested length and every declared model size in
\* -MaxLen..MaxLen
InitAdjust ==
    /\ argv \in { [Defaults EXCEPT !.length = l] : l \in -MaxLen..MaxLen }
    /\ args = [argv EXCEPT !.use_cache = UseCacheFlag(argv.use_cache)]
    /\ pc = "adjust"
    /\ err = NoError
    /\ distributed_state = TRUE
    /\ rng = [seeded |-> TRUE, draws |-> 0]
    /\ seed_calls = 1
    /\ tokenizer = TRUE
    /\ \E m \in -MaxLen..MaxLen :
          model = [loaded |-> TRUE, max_position_embeddings |-> m,
                   use_lang_emb |-> FALSE, lang_id |-> 0]
    /\ prompt_text = <<>>
    /\ i = 0
    /\ encoded_prompt = <<>>
    /\ records = <<>>
    /\ metrics = <<>>
    /\ files = <<>>
    /\ console_reads = <<>>
    /\ gen_calls = <<>>
    /\ runtime = -1
    /\ decoded = <<>>
    /\ text = <<>>

SpecAdjust == InitAdjust /\ [][AdjustLength]_vars

-----------------------------------------------------------------------------
(* main(), lines 555-563: decoding one returned sequence *)

Alphabet == {"a", "b"}

\* every string over Alphabet of at most n characters
Strings(n) == UNION { [1..k -> Alphabet] : k \in 0..n }

\* decoded texts, and the values of --stop_token: None, or a string ("" too)
TextInputs == Strings(MaxTextLen)
StopTokenInputs == {<<>>} \cup { <<s>> : s \in Strings(2) }

\* s[k : k + len(sub)] == sub, for a 0-based k
OccursAt(s, sub, k) ==
    /\ k + Len(sub) <= Len(s)
    /\ \A j \in 1..Len(sub) : s[k + j] = sub[j]

\* str.find: the lowest 0-based index at which sub occurs in s, -1 if none
Find(s, sub) ==
    IF \E k \in 0..Len(s) : OccursAt(s, sub, k)
    THEN CHOOSE k \in 0..Len(s) :
            /\ OccursAt(s, sub, k)
            /\ \A j \in 0..(k - 1) : ~OccursAt(s, sub, j)
    ELSE -1

\* s[:stop] for an integer stop: a negative stop counts from the end
SliceTo(s, stop) ==
    LET n == Len(s)
        e == IF stop < 0
             THEN (IF n + stop < 0 THEN 0 ELSE n + stop)
             ELSE (IF stop > n THEN n ELSE stop)
    IN SubSeq(s, 1, e)

\* Python truthiness of the optional --stop_token
StopTokenGiven(stop_token) == stop_token /= <<>> /\ stop_token[1] /= <<>>

\* line 563: text[: text.find(args.stop_token) if args.stop_token else None]
TruncateAtStop(s, stop_token) ==
    IF StopTokenGiven(stop_token)
    THEN SliceTo(s, Find(s, stop_token[1]))
    ELSE s

\* line 560: tokenizer.decode returns some text
DecodeText ==
    /\ pc = "decode"
    /\ \E t \in TextInputs :
          /\ decoded' = t
          /\ text' = t
    /\ pc' = "truncate"
    /\ UNCHANGED <<argv, args, err, distributed_state, rng, seed_calls,
                   tokenizer, model, prompt_text, i, encoded_prompt, records,
                   metrics, files, console_reads, gen_calls, runtime>>

\* line 563
RemoveAfterStop ==
    /\ pc = "truncate"
    /\ text' = TruncateAtStop(text, args.stop_token)
    /\ pc' = "sequence"
    /\ UNCHANGED decoded
    /\ UNCHANGED <<argv, args, err, distributed_state, rng, seed_calls,
                   tokenizer, model, prompt_text, i, encoded_prompt, records,
                   metrics, files, console_reads, gen_calls, runtime>>

NextStop == DecodeText \/ RemoveAfterStop

\* main() stands at line 560 in its first iteration: the first generate call
\* has returned, for every --stop_token
InitStop ==
    /\ argv \in { [Defaults EXCEPT !.stop_token = s] : s \in StopTokenInputs }
    /\ args = [argv EXCEPT !.use_cache = UseCacheFlag(argv.use_cache)]
    /\ pc = "decode"
    /\ err = NoError
    /\ distributed_state = TRUE
    /\ rng = [seeded |-> TRUE, draws |-> 1]
    /\ seed_calls = 1
    /\ tokenizer = TRUE
    /\ model = [loaded |-> TRUE, max_position_embeddings |-> 0,
                use_lang_emb |-> FALSE, lang_id |-> 0]
    /\ prompt_text = argv.prompt
    /\ i = 0
    /\ encoded_prompt = Encode(argv.prompt)
    /\ records = <<>>
    /\ metrics = <<>>
    /\ files = <<>>
    /\ console_reads = <<>>
    /\ gen_calls = << [ use_cache  |-> TRUE,
                        no_input   |-> FALSE,
                        input_ids  |-> Encode(argv.prompt),
                        max_length |-> argv.length + Len(argv.prompt),
                        rng        |-> [seeded |-> TRUE, draws |-> 0] ] >>
    /\ runtime = -1
    /\ decoded = <<>>
    /\ text = <<>>

SpecStop == InitStop /\ [][NextStop]_vars

-----------------------------------------------------------------------------
(* Properties *)

LoopFinished ==
    \/ pc \in {"write_records", "write_metrics", "done"}
    \/ pc = "loop" /\ ~(i < NIterations)
    \/ err \in {"StatisticsError", "OSError"}

\* C1: after the benchmark loop the records list has exactly
\* n_warmup_runs + n_runs entries and record k (0-based) is a warmup record
\* exactly when k < n_warmup_runs; at every moment the records so far are
\* flagged that way, and a step either leaves the list alone or appends one
\* record to it while the loop index advances by one.
C1_RecordsPartition ==
    /\ [](/\ LoopFinished => Len(records) = argv.n_warmup_runs + argv.n_runs
          /\ \A k \in 1..Len(records) :
                records[k].warmup = TRUE <=> k - 1 < argv.n_warmup_runs)
    /\ [][\/ records' = records
          \/ /\ Len(records') = Len(records) + 1
             /\ SubSeq(records', 1, Len(records)) = records
             /\ i' = i + 1
             /\ Len(records') = i']_vars

C1_Witness ==
    /\ pc = "done"
    /\ argv.n_warmup_runs = 2 /\ argv.n_runs = 1
    /\ Len(records) = 3
    /\ records[2].warmup /\ ~records[3].warmup

\* the fraction m is the statistical median of the sequence data
IsStatisticalMedian(m, data) ==
    LET n == Len(data)
        Less(x, y) == ~FracLeq(y, x)
    IN IF n % 2 = 1
       THEN \E k \in 1..n :
               /\ m = data[k]
               /\ 2 * Cardinality({j \in 1..n : Less(data[j], m)}) < n
               /\ 2 * Cardinality({j \in 1..n : Less(m, data[j])}) < n
       ELSE \E k, l \in 1..n :
               /\ k /= l
               /\ FracLeq(data[k], data[l])
               /\ 2 * (Cardinality({j \in 1..n \ {k, l} :
                                      FracLeq(data[j], data[k])}) + 1) >= n
               /\ 2 * (Cardinality({j \in 1..n \ {k, l} :
                                      FracLeq(data[l], data[j])}) + 1) >= n
               \* 2 * m = data[k] + data[l]
               /\ 2 * m[1] * data[k][2] * data[l][2]
                    = m[2] * (data[k][1] * data[l][2] + data[l][1] * data[k][2])

TpsOf(flag) ==
    LET idx == {k \in 1..Len(records) : records[k].warmup = flag}
        Pick(S) == CHOOSE x \in S : \A y \in S : x <= y
        RECURSIVE Walk(_)
        Walk(S) == IF S = {} THEN <<>>
                   ELSE <<records[Pick(S)].tokens_per_second>>
                            \o Walk(S \ {Pick(S)})
    IN Walk(idx)

\* C2: once the metrics are computed, median_warmup_tokens_per_second is
\* the statistical median of tokens_per_second over the warmup records and
\* median_tokens_per_second the one over the other records, and every record
\* is in exactly one of the two groups.
C2_Medians ==
    DOMAIN metrics /= {} =>
        /\ IsStatisticalMedian(metrics.median_warmup_tokens_per_second,
                               TpsOf(TRUE))
        /\ IsStatisticalMedian(metrics.median_tokens_per_second, TpsOf(FALSE))
        /\ \A k \in 1..Len(records) : records[k].warmup \in BOOLEAN
        /\ Len(TpsOf(TRUE)) + Len(TpsOf(FALSE)) = Len(records)

C2_Witness ==
    /\ pc = "done"
    /\ Len(TpsOf(TRUE)) = 2
    /\ TpsOf(TRUE)[1] /= TpsOf(TRUE)[2]
    /\ metrics.median_warmup_tokens_per_second \notin
           {TpsOf(TRUE)[1], TpsOf(TRUE)[2]}

\* C3: every record has tokens_per_second = total_tokens / latency with
\* total_tokens the sum of its output_lengths and latency > 0, and an
\* iteration that measured a latency of zero appends no record and ends the
\* run with a division error.
C3_TokensPerSecond ==
    /\ \A k \in 1..Len(records) :
          LET r == records[k]
          IN /\ r.latency > 0
             /\ r.total_tokens = SumSeq(r.output_lengths)
             /\ r.tokens_per_second[1] * r.latency
                    = r.total_tokens * r.tokens_per_second[2]
    /\ runtime = 0 =>
          /\ pc = "failed"
          /\ err = "ZeroDivisionError"
          /\ Len(records) = i

\* C4: adjust_length_to_model(length, max_sequence_length) is
\* max_sequence_length when length < 0 < max_sequence_length or when
\* 0 < max_sequence_length < length, 10000 when length < 0 and
\* max_sequence_length <= 0, and length otherwise; (-1, 0) gives 10000,
\* (50, 20) gives 20, (10, 20) gives 10; the result is never negative and
\* adjusting it again changes nothing.
C4_AdjustLength ==
    pc = "prompt" =>
        LET l == argv.length
            m == model.max_position_embeddings
            r == args.length
        IN /\ l < 0 /\ m > 0 => r = m
           /\ 0 < m /\ m < l => r = m
           /\ l < 0 /\ m <= 0 => r = 10000
           /\ ~(l < 0) /\ ~(0 < m /\ m < l) => r = l
           /\ l = -1 /\ m = 0 => r = 10000
           /\ l = 50 /\ m = 20 => r = 20
           /\ l = 10 /\ m = 20 => r = 10
           /\ r >= 0
           /\ adjust_length_to_model(r, m) = r

C4_Witness ==
    /\ pc = "prompt"
    /\ argv.length = -1
    /\ model.max_position_embeddings = 0
    /\ args.length = 10000

RunStarted ==
    \/ distributed_state
    \/ tokenizer
    \/ model.loaded
    \/ seed_calls > 0
    \/ gen_calls /= <<>>
    \/ records /= <<>>
    \/ files /= <<>>

\* C5 as stated: whenever --preset_prompt is given and prompts/<value>.txt
\* does not exist, the run never gets past the preset check: the device
\* state is not initialised, nothing is loaded, no iteration runs, no file
\* is written, and the run ends with an error.
C5_AnyPresetValue ==
    argv.preset_prompt /= None /\ argv.preset_prompt \notin PromptFiles =>
        /\ pc \in {"parse", "preset", "failed"}
        /\ ~RunStarted
        /\ pc = "failed" => err = "ValueError"

\* C5, amended: the same for every non-empty --preset_prompt value.
C5_NonEmptyPreset ==
    /\ argv.preset_prompt /= None
    /\ argv.preset_prompt /= ""
    /\ argv.preset_prompt \notin PromptFiles
    => /\ pc \in {"parse", "preset", "failed"}
       /\ ~RunStarted
       /\ pc = "failed" => err = "ValueError"

C5_Witness ==
    /\ argv.preset_prompt = "missing"
    /\ pc = "failed"
    /\ err = "ValueError"
    /\ ~RunStarted

CasePairs ==
    { <<"A","a">>, <<"B","b">>, <<"C","c">>, <<"D","d">>, <<"E","e">>,
      <<"F","f">>, <<"G","g">>, <<"H","h">>, <<"I","i">>, <<"J","j">>,
      <<"K","k">>, <<"L","l">>, <<"M","m">>, <<"N","n">>, <<"O","o">>,
      <<"P","p">>, <<"Q","q">>, <<"R","r">>, <<"S","s">>, <<"T","t">>,
      <<"U","u">>, <<"V","v">>, <<"W","w">>, <<"X","x">>, <<"Y","y">>,
      <<"Z","z">> }

\* s and t are the same string up to letter case
SameUpToCase(s, t) ==
    /\ Len(s) = Len(t)
    /\ \A k \in 1..Len(s) :
          \/ s[k] = t[k]
          \/ <<s[k], t[k]>> \in CasePairs
          \/ <<t[k], s[k]>> \in CasePairs

Supported(model_type) == \E key \in MODEL_CLASSES : SameUpToCase(model_type, key)

\* C6: a --model_type that is no key of MODEL_CLASSES, whatever its letter
\* case, ends the run with KeyError before the tokenizer or the model is
\* loaded; one that is a key up to letter case passes the lookup, so a
\* KeyError never happens for it and a tokenizer is only ever loaded for it.
C6_ModelTypeLookup ==
    /\ ~Supported(argv.model_type) =>
          /\ pc \in {"parse", "preset", "device", "lookup", "failed"}
          /\ ~tokenizer /\ ~model.loaded
          /\ pc = "failed" => err \in {"KeyError", "ValueError"}
          /\ pc = "failed" /\ distributed_state => err = "KeyError"
    /\ Supported(argv.model_type) =>
          /\ err /= "KeyError"
          /\ pc \notin {"parse", "preset", "device", "lookup", "failed"}
                => args.model_type \in MODEL_CLASSES
    /\ err = "KeyError" => ~tokenizer /\ ~model.loaded /\ gen_calls = <<>>

C6_Witness ==
    /\ argv.model_type = <<"G","P","T","2">>
    /\ tokenizer /\ model.loaded
    /\ pc = "done"

\* C7: the effective cache flag is FALSE exactly when --use_cache is the
\* string False and TRUE for every other string, and every generation call
\* of the run, warmup or measured, gets that flag as use_cache.
C7_UseCache ==
    pc /= "parse" =>
        /\ args.use_cache \in BOOLEAN
        /\ args.use_cache = FALSE <=> argv.use_cache = "False"
        /\ argv.use_cache \in {"false", "0", "", "True"} => args.use_cache = TRUE
        /\ \A k \in 1..Len(gen_calls) :
              gen_calls[k].use_cache = (argv.use_cache /= "False")

C7_Witness ==
    /\ argv.use_cache = "False"
    /\ argv.n_warmup_runs = 1 /\ argv.n_runs = 1
    /\ Len(gen_calls) = 2
    /\ gen_calls[1].use_cache = FALSE
    /\ gen_calls[2].use_cache = FALSE

\* C8: with n_warmup_runs = 0 or n_runs = 0 no metrics mapping is ever
\* produced and no file written; once all configured iterations have run
\* the next step is the median computation, which raises, and a run that
\* failed there has executed every configured iteration.
C8_EmptyGroupFails ==
    /\ [](argv.n_warmup_runs = 0 \/ argv.n_runs = 0 =>
            /\ DOMAIN metrics = {}
            /\ files = <<>>
            /\ pc \notin {"write_records", "write_metrics", "done"}
            /\ err = "StatisticsError" =>
                  /\ Len(records) = argv.n_warmup_runs + argv.n_runs
                  /\ Len(gen_calls) = argv.n_warmup_runs + argv.n_runs)
    /\ [][/\ argv.n_warmup_runs = 0 \/ argv.n_runs = 0
          /\ pc = "loop"
          /\ Len(records) = argv.n_warmup_runs + argv.n_runs
          => pc' = "failed" /\ err' = "StatisticsError"]_vars

C8_Witness ==
    /\ argv.n_warmup_runs = 2 /\ argv.n_runs = 0
    /\ err = "StatisticsError"
    /\ Len(records) = 2

\* C9: the records file is written first and the metrics file second, both
\* only after all n_warmup_runs + n_runs iterations have completed and both
\* medians are computed; a run that fails before the writes has written
\* neither file and a run that ends normally has written both.
C9_FilesLast ==
    /\ files \in {<<>>, <<"records_file">>, <<"records_file", "metrics_file">>}
    /\ files /= <<>> =>
          /\ Len(records) = argv.n_warmup_runs + argv.n_runs
          /\ i = argv.n_warmup_runs + argv.n_runs
          /\ DOMAIN metrics = {"median_warmup_tokens_per_second",
                               "median_tokens_per_second"}
          /\ pc \in {"write_metrics", "done", "failed"}
    /\ pc = "failed" /\ err /= "OSError" => files = <<>>
    /\ pc = "done" =>
          err = NoError /\ files = <<"records_file", "metrics_file">>
    /\ files = <<"records_file", "metrics_file">> => pc = "done"

C9_Witness ==
    /\ pc = "done"
    /\ files = <<"records_file", "metrics_file">>
    /\ Len(records) = 3

\* C10: over a whole run of at least one iteration there is at most one
\* console read (checked here on the runs in which every read so far was the
\* XLM language question and was answered with a known language).
C10_OneConsoleRead ==
    /\ argv.n_warmup_runs + argv.n_runs >= 1
    /\ \A k \in 1..Len(console_reads) :
          /\ console_reads[k].question = "Using XLM. Select language"
          /\ console_reads[k].answer \in DOMAIN lang2id
    => Len(console_reads) <= 1

\* C11: an iteration whose encoded prompt has zero tokens calls generate with
\* input_ids = None and then completes like any other: once its generate call
\* has returned and its latency is positive, its record is appended and the
\* run goes on (it never stops on the missing input).
C11_EmptyPromptCompletes ==
    /\ \A k \in 1..Len(gen_calls) :
          gen_calls[k].no_input <=> (gen_calls[k].input_ids = <<>>)
    /\ ( /\ gen_calls /= <<>>
         /\ gen_calls[Len(gen_calls)].no_input
         /\ pc = "failed" )
       => err \in {"GenerateError", "ZeroDivisionError"}

\* C12: the decoded text is cut at the stop token if it is present: with a
\* stop token given that occurs in the text, the result is exactly the text
\* before its first occurrence; with no stop token given (None or ""), or a
\* given one that does not occur in the text, the text is kept whole.
C12_TruncatedAtStopToken ==
    pc = "sequence" =>
       LET given == StopTokenGiven(argv.stop_token)
           stop  == argv.stop_token[1]
           occurs == \E k \in 0..Len(decoded) : OccursAt(decoded, stop, k)
       IN IF given /\ occurs
          THEN \E k \in 0..Len(decoded) :
                  /\ OccursAt(decoded, stop, k)
                  /\ \A j \in 0..(k - 1) : ~OccursAt(decoded, stop, j)
                  /\ text = SubSeq(decoded, 1, k)
          ELSE text = decoded

SeedCallsBeforeLoad == IF distributed_state THEN 1 ELSE 0

\* C13: with --same_seed the seed is set again in every iteration, after
\* tokenization and right before generate, so every generate call starts
\* from the freshly seeded state; without it the seed is set once, before
\* the tokenizer and model are loaded, and never again, so generate call k+1
\* starts from the state call k left behind.
C13_SeedDiscipline ==
    /\ (tokenizer \/ model.loaded) => seed_calls >= 1
    /\ IF argv.same_seed
       THEN /\ seed_calls = SeedCallsBeforeLoad + Len(gen_calls)
            /\ \A k \in 1..Len(gen_calls) :
                  gen_calls[k].rng = [seeded |-> TRUE, draws |-> 0]
       ELSE /\ seed_calls = SeedCallsBeforeLoad
            /\ \A k \in 1..Len(gen_calls) :
                  gen_calls[k].rng = [seeded |-> TRUE, draws |-> k - 1]

C13_Witness ==
    /\ argv.same_seed
    /\ argv.n_warmup_runs = 1
    /\ Len(records) = 2
    /\ seed_calls = 3
    /\ gen_calls[2].rng.draws = 0

\* C14: no generation is bigger than the model size: when the model declares
\* a positive max_position_embeddings, the max_length of every generate call
\* (adjusted --length plus the number of prompt tokens) is at most that size.
C14_MaxLengthWithinModel ==
    (model.loaded /\ model.max_position_embeddings > 0) =>
       \A k \in 1..Len(gen_calls) :
          gen_calls[k].max_length <= model.max_position_embeddings

=============================================================================
